---- MODULE Spec2Model ----
(***************************************************************************)
(* term-player: the playback state machine (Controller, Player, Display)   *)
(* and the FrameSet streaming buffer, as a state machine whose steps are   *)
(* the event-loop tasks of the program: a Controller command, the          *)
(* settling of an asynchronous read together with the promise              *)
(* continuations that run after it, and a tick of a refresh interval.      *)
(***************************************************************************)
EXTENDS Integers, Sequences, FiniteSets, TLC

\* ------------------------------------------------------------------ bounds
\* the number of Controller.play calls that get past the "stopped" check
MaxPlays == 2
\* the largest number of frames a decoder run produces
MaxFrames == 2

Calls == 1..MaxPlays

NULL == "null"
\* no FrameSet (call numbers start at 1), no title, no Frame
NoFrameSet == 0
NoTitle == <<>>
NoFrame == [set |-> 0, index |-> 0]

\* ------------------------------------------------------- PlayerState.js
STOPPED == "STOPPED"
PLAYING == "PLAYING"
PAUSED == "PAUSED"

PlayerStates == {STOPPED, PLAYING, PAUSED}

VARIABLES
  state,      \* Player[_state]
  display,    \* the fields of the Display, and the intervals it has running
  frameSets,  \* the FrameSet created by the Player.play of each call
  readers,    \* the MediaReaders acquired by each call
  calls,      \* where each accepted Controller.play call is in its chain
  added,      \* per FrameSet, the frames its reader emitted, in order
  painted,    \* per FrameSet, the frames handed to Display.paint, in order
  crashed,    \* a refresh tick has thrown
  help,       \* BlessedDisplay[_help]: the help box is shown
  last        \* the task that ran last: operation, result, events, paint call

\* FrameSet objects driven directly (add, finalize, hasNext, next, subSet)
VARIABLES
  fsSets,     \* each FrameSet: created or not, its frames array, flag, counter
  fsArrays,   \* the content of each frames array
  fsHist,     \* per FrameSet: how it was created, frames taken in and handed
              \* out, "finalize" events emitted, whether finalize was called
  fsCall      \* the FrameSet call made last: operation, set, result, events

\* Frame objects asked for Paints
VARIABLES
  pFrames,    \* each Frame: pixels, dimension and paint cache
  pView,      \* the Dimension of the view port the frames are painted to
  pCall       \* the getPaint call made last

\* single runs of the command line, of Color and of the quantization
VARIABLES
  cliRun,     \* a run of the command line: arguments, options, display
  colorRun,   \* a Color, its serialized text and the Color read back
  quantRun    \* a Frame, a view port, a previous Paint, and what
              \* _countColors and the Paint constructor made of them

ctlVars == <<state, display, frameSets, readers, calls, added, painted, crashed, help,
            last>>
fsVars == <<fsSets, fsArrays, fsHist, fsCall>>
paintVars == <<pFrames, pView, pCall>>
runVars == <<cliRun, colorRun, quantRun>>
libVars == <<fsVars, paintVars, runVars>>

vars == <<ctlVars, fsVars, paintVars, runVars>>

\* ------------------------------------------------------------ FrameSet.js
\* new FrameSet(frames)
FrameSetNew(initial) ==
  [frames |-> initial, finalized |-> FALSE, totalLength |-> 0]

FrameSetHasNext(fs) == Len(fs.frames) > 0

\* (an add that a finalized set accepts)
FrameSetCanAddAlways(fs) == TRUE

\* add(frame): throws on a finalized set
FrameSetCanAdd(fs) == ~fs.finalized

\* (an add that puts the frame at the head)
FrameSetAddAtHead(fs, frame) ==
  [fs EXCEPT !.frames = <<frame>> \o @, !.totalLength = @ + 1]

FrameSetAdd(fs, frame) ==
  [fs EXCEPT !.frames = Append(@, frame), !.totalLength = @ + 1]

\* (a finalize that flips the flag)
FrameSetFinalizeToggling(fs) == [fs EXCEPT !.finalized = ~@]

FrameSetFinalize(fs) ==
  IF fs.finalized THEN fs ELSE [fs EXCEPT !.finalized = TRUE]

\* (a next() that takes the frame from the tail)
FrameSetNextFrameFromTail(fs) == fs.frames[Len(fs.frames)]

\* next(): the frame returned, and the set afterwards
FrameSetNextFrame(fs) == Head(fs.frames)

\* (a next() that drops the tail of the set)
FrameSetNextDroppingTail(fs) ==
  [fs EXCEPT !.frames = SubSeq(@, 1, Len(@) - 1)]

\* (a next() that takes the frame off the total as well)
FrameSetNextCountingDown(fs) ==
  [fs EXCEPT !.frames = Tail(@), !.totalLength = @ - 1]

FrameSetNext(fs) == [fs EXCEPT !.frames = Tail(@)]

\* ------------------------------------------------- Display (BlessedDisplay.js)
DefaultTitle == <<0>>

DisplayNew ==
  [currentFrame |-> NoFrame, frameSet |-> NoFrameSet, frozen |-> TRUE, refreshId |-> NULL,
   title |-> DefaultTitle, rendered |-> FALSE, intervals |-> 0]

\* set frozen(frozen): setInterval when unfreezing, clearInterval of the
\* interval held in refreshId when freezing
SetFrozen(d, frozen) ==
  IF ~frozen
    THEN [d EXCEPT !.frozen = FALSE, !.refreshId = "interval", !.intervals = @ + 1]
    ELSE IF d.refreshId # NULL
      THEN [d EXCEPT !.frozen = TRUE, !.refreshId = NULL, !.intervals = @ - 1]
      ELSE [d EXCEPT !.frozen = TRUE]

\* set title(title)
SetTitle(d, t) == [d EXCEPT !.title = IF t = NoTitle THEN DefaultTitle ELSE t]

\* load(frameSet), when no frame set is loaded
\* (a load that takes a FrameSet whatever is loaded)
LoadThrowsNever(d) == FALSE

\* load(frameSet) throws when a FrameSet is loaded
LoadThrows(d) == d.frameSet # NoFrameSet

Load(d, f) == SetFrozen([d EXCEPT !.frameSet = f], FALSE)

\* (an unload() that keeps the frame set)
UnloadKeepingFrameSet(d) == SetTitle(SetFrozen(d, TRUE), NoTitle)

\* unload()
Unload(d) == [SetTitle(SetFrozen(d, TRUE), NoTitle) EXCEPT !.frameSet = NoFrameSet]

\* BlessedDisplay.render()
Render(d) == [d EXCEPT !.rendered = TRUE]

\* --------------------------------------------------------------- Player.js
\* set paused(paused), set playing(playing), set stopped(stopped)
SetPaused(s, paused) == IF paused THEN PAUSED ELSE s

SetPlaying(s, playing) == IF playing THEN PLAYING ELSE s

SetStopped(s, stopped) == IF stopped THEN STOPPED ELSE s

\* the state Player.play leaves the player in
PlayerPlay(s) == PLAYING

\* a MediaReader: not acquired, acquired and running, destroyed
NoReaders == [title |-> "none", frames |-> "none"]

\* (a settle handler that leaves its reader as it is)
MediaReaderKept(r) == r

\* MediaReader.destroy(), as Player.getTitle and Player.play call it in their
\* then and catch handlers; a second destroy of one reader is told apart
MediaReaderDestroy(r) == IF r = "destroyed" THEN "destroyedAgain" ELSE "destroyed"

\* the frames a decoder run of call c emits: Frame(i, ...) for i = 0..n-1
Frame(c, i) == [set |-> c, index |-> i]

\* (a decoder whose frames have not arrived when its read settles)
AddFramesNone(fs, c, i, n) == fs

RECURSIVE AddFrames(_, _, _, _)
AddFrames(fs, c, i, n) ==
  IF i >= n THEN fs ELSE AddFrames(FrameSetAdd(fs, Frame(c, i)), c, i + 1, n)

\* the FrameSet and Frame objects of the library-level specifications are
\* not created in a playback
FsUnused ==
  /\ fsSets = <<>>
  /\ fsArrays = <<>>
  /\ fsHist = <<>>
  /\ fsCall = <<>>

PaintUnused ==
  /\ pFrames = <<>>
  /\ pView = <<>>
  /\ pCall = <<>>

\* nor is the command line run, a Color serialized or a Frame quantized
\* outside of a display
CliUnused == cliRun = <<>>

ColorUnused == colorRun = <<>>

QuantizeUnused == quantRun = <<>>

RunsUnused == CliUnused /\ ColorUnused /\ QuantizeUnused

\* ------------------------------------------------------------------- tasks
NoPaint == [frame |-> NoFrame, prev |-> NoFrame]

Done(op, ret, events) == [op |-> op, ret |-> ret, events |-> events, paint |-> NoPaint]

Init ==
  /\ state = STOPPED
  /\ display = DisplayNew
  /\ frameSets = [c \in Calls |-> FrameSetNew(<<>>)]
  /\ readers = [c \in Calls |-> NoReaders]
  /\ calls = [c \in Calls |-> "idle"]
  /\ added = [c \in Calls |-> <<>>]
  /\ painted = [c \in Calls |-> <<>>]
  /\ crashed = FALSE
  /\ help = FALSE
  /\ last = Done("init", "none", <<>>)
  /\ FsUnused
  /\ PaintUnused
  /\ RunsUnused

\* (a Controller.play without the "stopped" check)
ControllerPlayUnchecked ==
  /\ ~crashed
  /\ \E c \in Calls :
       /\ calls[c] = "idle"
       /\ \A b \in Calls : b < c => calls[b] # "idle"
       /\ calls' = [calls EXCEPT ![c] = "isFile"]
  /\ last' = Done("play", "pending", <<>>)
  /\ UNCHANGED <<state, display, frameSets, readers, added, painted, crashed>>
  /\ UNCHANGED <<help, libVars>>

\* Controller.play(filePath, options), up to the pending Files.isFile
ControllerPlay ==
  /\ ~crashed
  /\ IF state # STOPPED
       THEN /\ last' = Done("play", "notStopped", <<>>)
            /\ UNCHANGED calls
       ELSE /\ \E c \in Calls :
                 /\ calls[c] = "idle"
                 /\ \A b \in Calls : b < c => calls[b] # "idle"
                 /\ calls' = [calls EXCEPT ![c] = "isFile"]
            /\ last' = Done("play", "pending", <<>>)
  /\ UNCHANGED <<state, display, frameSets, readers, added, painted, crashed>>
  /\ UNCHANGED <<help, libVars>>

\* Files.isFile settles; on true, Player.getTitle acquires a reader
IsFileSettles(c, isFile) ==
  /\ ~crashed
  /\ calls[c] = "isFile"
  /\ IF isFile
       THEN /\ calls' = [calls EXCEPT ![c] = "title"]
            /\ readers' = [readers EXCEPT ![c].title = "alive"]
            /\ last' = Done("isFile", "pending", <<>>)
       ELSE /\ calls' = [calls EXCEPT ![c] = "settled"]
            /\ last' = Done("isFile", "invalidFile", <<>>)
            /\ UNCHANGED readers
  /\ UNCHANGED <<state, display, frameSets, added, painted, crashed>>
  /\ UNCHANGED <<help, libVars>>

\* readTitle settles: Player.getTitle destroys its reader; on success the
\* Controller sets the title, emits "play" and calls Player.play, which
\* creates the FrameSet, acquires a reader and starts readDimension
TitleSettles(c, ok) ==
  /\ ~crashed
  /\ calls[c] = "title"
  /\ IF ok
       THEN /\ calls' = [calls EXCEPT ![c] = "dimension"]
            /\ readers' = [readers EXCEPT ![c].title = MediaReaderDestroy(@),
                                          ![c].frames = "alive"]
            /\ display' = SetTitle(display, <<c>>)
            /\ frameSets' = [frameSets EXCEPT ![c] = FrameSetNew(<<>>)]
            /\ state' = PlayerPlay(state)
            /\ last' = Done("title", "pending", <<"play">>)
       ELSE /\ calls' = [calls EXCEPT ![c] = "settled"]
            /\ readers' = [readers EXCEPT ![c].title = MediaReaderDestroy(@)]
            /\ last' = Done("title", "readError", <<>>)
            /\ UNCHANGED <<state, display, frameSets>>
  /\ UNCHANGED <<added, painted, crashed>>
  /\ UNCHANGED <<help, libVars>>

\* readDimension settles: on success readFrames starts the decoder, on
\* failure Player.play destroys the reader and rethrows
DimensionSettles(c, ok) ==
  /\ ~crashed
  /\ calls[c] = "dimension"
  /\ IF ok
       THEN /\ calls' = [calls EXCEPT ![c] = "frames"]
            /\ last' = Done("dimension", "pending", <<>>)
            /\ UNCHANGED readers
       ELSE /\ calls' = [calls EXCEPT ![c] = "settled"]
            /\ readers' = [readers EXCEPT ![c].frames = MediaReaderDestroy(@)]
            /\ last' = Done("dimension", "readError", <<>>)
  /\ UNCHANGED <<state, display, frameSets, added, painted, crashed>>
  /\ UNCHANGED <<help, libVars>>

\* readFrames settles.  On success the decoder output has finished: the n
\* frames are emitted and added, "finish" finalizes the set, Player.play
\* destroys the reader and the Controller renders the display and loads the
\* set (which throws when a set is still loaded).  On failure Player.play
\* destroys the reader and rethrows.
FramesSettles(c, ok, n) ==
  /\ ~crashed
  /\ calls[c] = "frames"
  /\ calls' = [calls EXCEPT ![c] = "settled"]
  /\ readers' = [readers EXCEPT ![c].frames = MediaReaderDestroy(@)]
  /\ IF ok
       THEN /\ frameSets' = [frameSets EXCEPT
                   ![c] = FrameSetFinalize(AddFrames(@, c, 0, n))]
            /\ added' = [added EXCEPT ![c] = [i \in 1..n |-> Frame(c, i - 1)]]
            /\ IF LoadThrows(display)
                 THEN /\ display' = Render(display)
                      /\ last' = Done("frames", "alreadyLoaded", <<>>)
                 ELSE /\ display' = Load(Render(display), c)
                      /\ last' = Done("frames", "resolved", <<>>)
       ELSE /\ n = 0
            /\ last' = Done("frames", "readError", <<>>)
            /\ UNCHANGED <<display, frameSets, added>>
  /\ UNCHANGED <<state, painted, crashed>>
  /\ UNCHANGED <<help, libVars>>

\* (a Controller.pause that leaves the display running)
ControllerPauseNotFreezing ==
  /\ ~crashed
  /\ IF state # PLAYING
       THEN /\ last' = Done("pause", "false", <<>>)
            /\ UNCHANGED state
       ELSE /\ state' = SetPaused(state, TRUE)
            /\ last' = Done("pause", "true", <<"pause">>)
  /\ UNCHANGED <<display, frameSets, readers, calls, added, painted, crashed>>
  /\ UNCHANGED <<help, libVars>>

\* Controller.pause()
ControllerPause ==
  /\ ~crashed
  /\ IF state # PLAYING
       THEN /\ last' = Done("pause", "false", <<>>)
            /\ UNCHANGED <<state, display>>
       ELSE /\ state' = SetPaused(state, TRUE)
            /\ display' = SetFrozen(display, TRUE)
            /\ last' = Done("pause", "true", <<"pause">>)
  /\ UNCHANGED <<frameSets, readers, calls, added, painted, crashed>>
  /\ UNCHANGED <<help, libVars>>

\* Controller.resume()
ControllerResume ==
  /\ ~crashed
  /\ IF state # PAUSED
       THEN /\ last' = Done("resume", "false", <<>>)
            /\ UNCHANGED <<state, display>>
       ELSE /\ state' = SetPlaying(state, TRUE)
            /\ display' = SetFrozen(display, FALSE)
            /\ last' = Done("resume", "true", <<"resume">>)
  /\ UNCHANGED <<frameSets, readers, calls, added, painted, crashed>>
  /\ UNCHANGED <<help, libVars>>

\* Controller.stop()
ControllerStop ==
  /\ ~crashed
  /\ state' = SetStopped(state, TRUE)
  /\ display' = Unload(display)
  /\ last' = IF state # STOPPED THEN Done("stop", "true", <<"stop">>)
                                ELSE Done("stop", "false", <<>>)
  /\ UNCHANGED <<frameSets, readers, calls, added, painted, crashed>>
  /\ UNCHANGED <<help, libVars>>

\* Display[_paintNextFrame], run by an interval the display has started
Tick ==
  /\ ~crashed
  /\ display.intervals > 0
  /\ IF display.frozen \/ ~display.rendered
       THEN /\ last' = Done("tick", "nothing", <<>>)
            /\ UNCHANGED <<state, display, frameSets, painted, crashed>>
       ELSE IF display.frameSet = NoFrameSet
         THEN \* this[_frameSet].hasNext() on null
              /\ crashed' = TRUE
              /\ last' = Done("tick", "throws", <<>>)
              /\ UNCHANGED <<state, display, frameSets, painted>>
         ELSE LET f == display.frameSet
                  frame == FrameSetNextFrame(frameSets[f])
                  after == FrameSetNext(frameSets[f])
                  shown == [display EXCEPT !.currentFrame = frame]
                  finished == ~FrameSetHasNext(after) /\ after.finalized
              IN IF ~FrameSetHasNext(frameSets[f])
                   THEN /\ last' = Done("tick", "nothing", <<>>)
                        /\ UNCHANGED <<state, display, frameSets, painted, crashed>>
                   ELSE /\ frameSets' = [frameSets EXCEPT ![f] = after]
                        /\ painted' = [painted EXCEPT ![f] = Append(@, frame)]
                        /\ state' = IF finished THEN SetStopped(state, TRUE) ELSE state
                        /\ display' = IF finished THEN Unload(shown) ELSE shown
                        /\ last' = [op |-> "tick", ret |-> "painted",
                                    events |-> IF finished /\ state # STOPPED
                                                 THEN <<"stop">> ELSE <<>>,
                                    paint |-> [frame |-> frame,
                                               prev |-> display.currentFrame]]
                        /\ UNCHANGED crashed
  /\ UNCHANGED <<readers, calls, added>>
  /\ UNCHANGED <<help, libVars>>

\* (a help command that shows the help whether or not it is shown)
ControllerHelpShowing ==
  /\ ~crashed
  /\ display.rendered
  /\ help' = TRUE
  /\ last' = Done("help", "true", <<>>)
  /\ UNCHANGED <<state, display, frameSets, readers, calls, added, painted, crashed>>
  /\ UNCHANGED libVars

\* Controller.help(), which the "?" key of the rendered screen calls: hides
\* the help box if it is shown, shows it if not, and returns !wasShowing
ControllerHelp ==
  /\ ~crashed
  /\ display.rendered
  /\ help' = ~help
  /\ last' = Done("help", IF help THEN "false" ELSE "true", <<>>)
  /\ UNCHANGED <<state, display, frameSets, readers, calls, added, painted, crashed>>
  /\ UNCHANGED libVars

Next ==
  \/ ControllerPlay
  \/ \E c \in Calls, isFile \in BOOLEAN : IsFileSettles(c, isFile)
  \/ \E c \in Calls, ok \in BOOLEAN : TitleSettles(c, ok)
  \/ \E c \in Calls, ok \in BOOLEAN : DimensionSettles(c, ok)
  \/ \E c \in Calls, ok \in BOOLEAN, n \in 0..MaxFrames : FramesSettles(c, ok, n)
  \/ ControllerPause
  \/ ControllerResume
  \/ ControllerStop
  \/ Tick

Spec == Init /\ [][Next]_vars

\* the playback of readable files with the help key in use
HelpNext ==
  \/ ControllerPlay
  \/ \E c \in Calls : IsFileSettles(c, TRUE)
  \/ \E c \in Calls : TitleSettles(c, TRUE)
  \/ \E c \in Calls : DimensionSettles(c, TRUE)
  \/ \E c \in Calls, n \in 1..MaxFrames : FramesSettles(c, TRUE, n)
  \/ ControllerPause
  \/ ControllerResume
  \/ ControllerStop
  \/ Tick
  \/ ControllerHelp

HelpSpec == Init /\ [][HelpNext]_vars

\* The event loop keeps running what is due: an active interval fires again
\* and again, and a pending read settles.
LiveSpec ==
  /\ Spec
  /\ WF_vars(Tick)
  /\ WF_vars(\E c \in Calls, isFile \in BOOLEAN : IsFileSettles(c, isFile))
  /\ WF_vars(\E c \in Calls, ok \in BOOLEAN : TitleSettles(c, ok))
  /\ WF_vars(\E c \in Calls, ok \in BOOLEAN : DimensionSettles(c, ok))
  /\ WF_vars(\E c \in Calls, ok \in BOOLEAN, n \in 0..MaxFrames : FramesSettles(c, ok, n))

\* ------------------------------------------------------------- properties
IsPrefix(s, t) == Len(s) <= Len(t) /\ \A i \in 1..Len(s) : s[i] = t[i]

RECURSIVE SumLen(_, _)
SumLen(f, S) ==
  IF S = {} THEN 0
  ELSE LET c == CHOOSE x \in S : TRUE IN Len(f[c]) + SumLen(f, S \ {c})

\* C1: the frames painted from a FrameSet are a prefix of the frames added
\* to it (same order, none skipped, none twice), the painted frames followed
\* by the buffered ones are exactly the added ones, and one task (a tick in
\* particular) paints at most one frame.
C1_PaintedIsPrefixOfAdded ==
  /\ [](\A c \in Calls : /\ IsPrefix(painted[c], added[c])
                          /\ painted[c] \o frameSets[c].frames = added[c])
  /\ [][SumLen(painted', Calls) <= SumLen(painted, Calls) + 1]_vars

C1_Witness ==
  \E c \in Calls : Len(painted[c]) >= 2 /\ Len(painted[c]) = Len(added[c])

\* C2: once the display is unfrozen with a bound FrameSet that is finalized
\* and empty, the render consumer eventually stops the session (the player
\* is STOPPED and the display unloaded), unless a command is issued first.
Commands == {"play", "pause", "resume", "stop"}

C2_AutoStop ==
  \A c \in Calls :
    (/\ display.frameSet = c
     /\ ~display.frozen
     /\ frameSets[c].finalized
     /\ ~FrameSetHasNext(frameSets[c]))
      ~> \/ state = STOPPED /\ display.frameSet = NoFrameSet
         \/ last.op \in Commands

\* C3: the player state is always one of the three states, and it changes
\* only STOPPED->PLAYING by play, PLAYING->PAUSED by pause, PAUSED->PLAYING
\* by resume, or to STOPPED by stop (a command, or the auto-stop of a tick).
C3_Transitions ==
  /\ [](state \in PlayerStates)
  /\ [][state' # state =>
          \/ state = STOPPED /\ state' = PLAYING /\ last'.op = "title"
          \/ state = PLAYING /\ state' = PAUSED /\ last'.op = "pause"
          \/ state = PAUSED /\ state' = PLAYING /\ last'.op = "resume"
          \/ state' = STOPPED /\ last'.op \in {"stop", "tick"}]_vars

\* C4: Controller.play while the player is not STOPPED is rejected and
\* changes nothing: not the player state, the display (bound FrameSet,
\* frozen flag, title), nor is a reader acquired or a call started.
C4_PlayRejectedWhenNotStopped ==
  [][last'.op = "play" /\ state # STOPPED =>
       /\ last'.ret = "notStopped"
       /\ UNCHANGED <<state, display, readers, frameSets, calls>>]_vars

C4_Witness ==
  /\ last.op = "play"
  /\ last.ret = "notStopped"
  /\ state = PAUSED
  /\ display.frameSet # NoFrameSet

\* C5: Player.play invoked while the player is PLAYING or PAUSED fails and
\* alters nothing: the state is unchanged, no FrameSet is created and no
\* reader is acquired for frames.
C5_PlayerPlayRejects ==
  [][\A c \in Calls :
       (calls[c] = "title" /\ last'.op = "title" /\ last'.ret # "readError"
          /\ calls'[c] # "title" /\ state # STOPPED) =>
         /\ state' = state
         /\ frameSets' = frameSets
         /\ readers'[c].frames = "none"
         /\ calls'[c] = "settled"]_vars

\* C6: Controller.pause returns true exactly when the player was PLAYING,
\* and then the player is PAUSED and the display frozen; Controller.resume
\* returns true exactly when the player was PAUSED, and then the player is
\* PLAYING and the display unfrozen.  On false neither player nor display
\* changes.  The "pause"/"resume" event is emitted only on true.
C6_PauseResume ==
  [][/\ last'.op = "pause" =>
          /\ last'.ret = IF state = PLAYING THEN "true" ELSE "false"
          /\ last'.ret = "true" =>
                state' = PAUSED /\ display'.frozen /\ display'.refreshId = NULL
          /\ last'.ret = "false" => UNCHANGED <<state, display>>
          /\ last'.events = IF last'.ret = "true" THEN <<"pause">> ELSE <<>>
     /\ last'.op = "resume" =>
          /\ last'.ret = IF state = PAUSED THEN "true" ELSE "false"
          /\ last'.ret = "true" =>
                state' = PLAYING /\ ~display'.frozen /\ display'.refreshId # NULL
          /\ last'.ret = "false" => UNCHANGED <<state, display>>
          /\ last'.events = IF last'.ret = "true" THEN <<"resume">> ELSE <<>>]_vars

C6_Witness ==
  /\ last.op = "resume"
  /\ last.ret = "true"
  /\ display.frameSet # NoFrameSet
  /\ \E c \in Calls : painted[c] # <<>> /\ FrameSetHasNext(frameSets[c])

\* C7: while the player is PAUSED (pause has returned true and resume has
\* not since), no frame is removed from a FrameSet and none is painted.
C7_NothingPaintedWhilePaused ==
  [][state = PAUSED =>
       /\ painted' = painted
       /\ \A c \in Calls : frameSets[c].frames # <<>> =>
                              frameSets'[c].frames = frameSets[c].frames]_vars

\* C8: Controller.stop leaves the player STOPPED and the display frozen with
\* no FrameSet bound; it returns true and emits one "stop" event iff the
\* player was not STOPPED before, else false and no event; a stop that
\* follows a stop changes nothing.
C8_Stop ==
  [][last'.op = "stop" =>
       /\ state' = STOPPED
       /\ display'.frozen
       /\ display'.refreshId = NULL
       /\ display'.frameSet = NoFrameSet
       /\ last'.ret = IF state # STOPPED THEN "true" ELSE "false"
       /\ last'.events = IF state # STOPPED THEN <<"stop">> ELSE <<>>
       /\ last.op = "stop" =>
             UNCHANGED <<state, display, frameSets, readers, calls, added, painted>>]_vars

C8_Witness ==
  /\ last.op = "stop"
  /\ last.ret = "true"
  /\ display.currentFrame # NoFrame
  /\ \E c \in Calls : calls[c] \in {"dimension", "frames"}

\* C9: once a failure of readDimension or readFrames has been propagated,
\* the player is STOPPED.
C9_FailedDecodeStops ==
  (last.op \in {"dimension", "frames"} /\ last.ret = "readError") => state = STOPPED

\* C10: after Controller.stop no reader acquired by an earlier play is alive.
C10_StopKillsReaders ==
  last.op = "stop" => \A c \in Calls : readers[c].frames # "alive"

\* C23: when Controller.play is rejected because its path is not an
\* accessible regular file, the player is STOPPED, the display is frozen with
\* no FrameSet bound, the rejection emits no "play" event and the call has
\* acquired no reader.
C23_InvalidFileRejected ==
  [][\A c \in Calls :
       (calls[c] = "isFile" /\ last'.op = "isFile" /\ calls'[c] = "settled") =>
         /\ last'.ret = "invalidFile"
         /\ state' = STOPPED
         /\ display'.frameSet = NoFrameSet
         /\ display'.frozen
         /\ last'.events = <<>>
         /\ readers'[c] = NoReaders]_vars

\* C26: a tick either changes nothing (frozen, not rendered, or no buffered
\* frame) or removes exactly one frame from the bound FrameSet and paints
\* it; it never throws, so it never runs while the display is unfrozen and
\* rendered with no FrameSet bound.
C26_TickNeverFails ==
  [][last'.op = "tick" =>
       /\ last'.ret # "throws"
       /\ ~(~display.frozen /\ display.rendered /\ display.frameSet = NoFrameSet)
       /\ \/ /\ last'.ret = "nothing"
             /\ \/ display.frozen
                \/ ~display.rendered
                \/ ~FrameSetHasNext(frameSets[display.frameSet])
             /\ UNCHANGED <<state, display, frameSets, painted>>
          \/ /\ last'.ret = "painted"
             /\ LET f == display.frameSet
                IN /\ frameSets[f].frames = <<last'.paint.frame>> \o frameSets'[f].frames
                   /\ painted' = [painted EXCEPT ![f] = Append(@, last'.paint.frame)]]_vars

\* C27: a display never has more than one refresh timer running, and a
\* frozen display has none.
C27_AtMostOneTimer ==
  /\ display.intervals <= 1
  /\ display.frozen => display.intervals = 0

\* C28: the display is unfrozen only while a FrameSet is bound and the
\* player is PLAYING; whenever the player is STOPPED or PAUSED the display
\* is frozen.
C28_UnfrozenOnlyWhilePlaying ==
  /\ ~display.frozen => display.frameSet # NoFrameSet /\ state = PLAYING
  /\ state \in {STOPPED, PAUSED} => display.frozen

\* C29: the reader Player.getTitle or Player.play acquired is alive until its
\* read settles and is destroyed, once, in the step that settles it, on
\* success and on failure (which is then re-raised: the call ends with the
\* read error); no reader is alive after its call has settled and none is
\* destroyed twice.
C29_ReadersDestroyedOnce ==
  [][\A c \in Calls :
       /\ readers'[c].title # "destroyedAgain"
       /\ readers'[c].frames # "destroyedAgain"
       /\ (calls[c] = "title" /\ calls'[c] # "title") =>
            readers[c].title = "alive" /\ readers'[c].title = "destroyed"
       /\ (calls[c] \in {"dimension", "frames"} /\ calls'[c] = "settled") =>
            readers[c].frames = "alive" /\ readers'[c].frames = "destroyed"
       /\ (calls[c] = "dimension" /\ calls'[c] = "frames") =>
            readers'[c].frames = "alive"
       /\ (calls[c] = calls'[c]) => readers'[c] = readers[c]
       /\ (calls'[c] = "settled") =>
            readers'[c].title # "alive" /\ readers'[c].frames # "alive"
       /\ (calls[c] # "settled" /\ calls'[c] = "settled"
             /\ last'.ret = "readError") =>
            \/ readers[c].title = "alive" /\ readers'[c].title = "destroyed"
            \/ readers[c].frames = "alive" /\ readers'[c].frames = "destroyed"]_vars

C29_Witness ==
  /\ last.op = "frames"
  /\ last.ret = "readError"
  /\ \E c, d \in Calls :
       /\ c # d
       /\ readers[c] = [title |-> "destroyed", frames |-> "destroyed"]
       /\ calls[c] = "settled"
       /\ added[c] # <<>>
       /\ readers[d] = [title |-> "destroyed", frames |-> "destroyed"]
       /\ calls[d] = "settled"
       /\ added[d] = <<>>

\* C35: Display.load on a display that has a FrameSet bound throws and
\* leaves the bound FrameSet, the frozen flag and the refresh timer as they
\* were; a load succeeds only on a display with no FrameSet, so the bound
\* FrameSet never changes from one set to another without an unload.
C35_LoadRejectsWhenLoaded ==
  [][/\ (last'.op = "frames" /\ last'.ret \in {"resolved", "alreadyLoaded"}) =>
          /\ (last'.ret = "alreadyLoaded") = (display.frameSet # NoFrameSet)
          /\ last'.ret = "alreadyLoaded" =>
                /\ display'.frameSet = display.frameSet
                /\ display'.frozen = display.frozen
                /\ display'.refreshId = display.refreshId
                /\ display'.intervals = display.intervals
          /\ last'.ret = "resolved" => display'.frameSet # NoFrameSet
     /\ display'.frameSet # display.frameSet =>
          display.frameSet = NoFrameSet \/ display'.frameSet = NoFrameSet]_vars

C35_Witness ==
  /\ last.op = "frames"
  /\ last.ret = "alreadyLoaded"
  /\ display.frameSet # NoFrameSet
  /\ ~display.frozen
  /\ \E c \in Calls : c # display.frameSet /\ frameSets[c].frames # <<>>

\* C36: of two Controller.play calls that overlap (both issued before
\* either has reached Player.play) at most one ever acquires a reader for
\* frames.
C36_OverlappingPlays ==
  \A c, d \in Calls :
    c # d =>
      []((calls[c] \in {"isFile", "title"} /\ calls[d] \in {"isFile", "title"})
           => [](readers[c].frames = "none" \/ readers[d].frames = "none"))

\* C37: the previous frame handed to paint is a frame of the same FrameSet,
\* and none (null) for the first frame painted from a FrameSet.
C37_PreviousFrameOfSamePlayback ==
  [][(last'.op = "tick" /\ last'.ret = "painted") =>
       LET frame == last'.paint.frame
           prev == last'.paint.prev
       IN /\ prev = NoFrame \/ prev.set = frame.set
          /\ painted[frame.set] = <<>> => prev = NoFrame]_vars

\* C38: a FrameSet is bound to the display finalized and holding all the
\* frames its reader emitted, numbered 0..n-1 in order, with totalLength =
\* length = n; while it is bound no frame is added to it and it stays
\* finalized.
C38_BoundFrameSetIsComplete ==
  [][\A c \in Calls :
       /\ (display'.frameSet = c /\ display.frameSet # c) =>
            /\ frameSets'[c].finalized
            /\ frameSets'[c].frames = added'[c]
            /\ frameSets'[c].totalLength = Len(frameSets'[c].frames)
            /\ \A i \in 1..Len(frameSets'[c].frames) :
                 frameSets'[c].frames[i] = Frame(c, i - 1)
       /\ display.frameSet = c =>
            /\ added'[c] = added[c]
            /\ frameSets'[c].finalized
            /\ frameSets'[c].totalLength = frameSets[c].totalLength]_vars

C38_Witness ==
  /\ last.op = "frames"
  /\ last.ret = "resolved"
  /\ \E c \in Calls :
       /\ display.frameSet = c
       /\ frameSets[c].finalized
       /\ Len(frameSets[c].frames) = MaxFrames
       /\ painted[c] = <<>>

FsMaxFrames == 3

FsSource == 1
FsDerived == 2
FsSetIds == {FsSource, FsDerived}

\* an argument of subSet: <<>> when omitted, <<n>> when given
FsSliceArgs == {<<>>} \cup {<<n>> : n \in (0 - 1)..FsMaxFrames}

\* Array.prototype.slice: an omitted index is the default, a negative one
\* counts from the end, and both are clamped to the array
RelativeIndex(len, arg, default) ==
  IF arg = <<>> THEN default
  ELSE IF arg[1] < 0 THEN (IF len + arg[1] < 0 THEN 0 ELSE len + arg[1])
  ELSE IF arg[1] > len THEN len
  ELSE arg[1]

ArraySlice(a, begin, end) ==
  LET from == RelativeIndex(Len(a), begin, 0)
      to == RelativeIndex(Len(a), end, Len(a))
  IN  IF from >= to THEN <<>> ELSE SubSeq(a, from + 1, to)

\* subSet(begin, end)
FrameSetSubSet(fs, begin, end) ==
  LET frameSet == FrameSetNew(ArraySlice(fs.frames, begin, end))
  IN  [frameSet EXCEPT !.totalLength = Len(frameSet.frames),
                       !.finalized = IF fs.finalized THEN TRUE ELSE @]

\* (a FrameSet that keeps the array it is given)
FrameSetArrayShared(own, given) == IF given = 0 THEN own ELSE given

\* the array a new FrameSet holds is a copy made for it (given: the array
\* the frames come from, 0 when there is none)
FrameSetArray(own, given) == own

FsNoSet == [made |-> FALSE, array |-> 0, finalized |-> FALSE, totalLength |-> 0]

FsNoHist ==
  [origin |-> "none", initial |-> <<>>, added |-> <<>>, out |-> <<>>,
   finalizeEvents |-> 0, finalizeCalled |-> FALSE]

FsDone(op, set, ret, events, frame, into, begin, end) ==
  [op |-> op, set |-> set, ret |-> ret, events |-> events, frame |-> frame,
   into |-> into, begin |-> begin, end |-> end]

\* the FrameSet object with identifier id, as the operators above take it
FsObject(id) ==
  [frames |-> fsArrays[fsSets[id].array], finalized |-> fsSets[id].finalized,
   totalLength |-> fsSets[id].totalLength]

FsMade == {id \in FsSetIds : fsSets[id].made}

Range(s) == {s[i] : i \in 1..Len(s)}

\* the frames the test has created so far, and the one it creates next
FsKnownFrames ==
  UNION {Range(fsHist[id].initial) \cup Range(fsHist[id].added) : id \in FsSetIds}

FsNewFrame == Cardinality(FsKnownFrames) + 1

RECURSIVE FsNewFrames(_, _)
FsNewFrames(first, n) ==
  IF n = 0 THEN <<>> ELSE <<first>> \o FsNewFrames(first + 1, n - 1)

\* the fields of set id and the content of its array after a call left it as fs
FsStored(id, fs) ==
  /\ fsSets' = [fsSets EXCEPT ![id].finalized = fs.finalized,
                              ![id].totalLength = fs.totalLength]
  /\ fsArrays' = [fsArrays EXCEPT ![fsSets[id].array] = fs.frames]

\* a new FrameSet object with identifier id; its array is array
FsCreated(id, array, fs) ==
  /\ fsSets' = [fsSets EXCEPT ![id] =
       [made |-> TRUE, array |-> array, finalized |-> fs.finalized,
        totalLength |-> fs.totalLength]]
  /\ fsArrays' = [fsArrays EXCEPT ![array] = fs.frames]

FsInit ==
  /\ fsSets = [id \in FsSetIds |-> FsNoSet]
  /\ fsArrays = [id \in FsSetIds |-> <<>>]
  /\ fsHist = [id \in FsSetIds |-> FsNoHist]
  /\ fsCall = FsDone("init", 0, "none", <<>>, 0, 0, <<>>, <<>>)
  /\ state = STOPPED
  /\ display = DisplayNew
  /\ frameSets = [c \in Calls |-> FrameSetNew(<<>>)]
  /\ readers = [c \in Calls |-> NoReaders]
  /\ calls = [c \in Calls |-> "none"]
  /\ added = [c \in Calls |-> <<>>]
  /\ painted = [c \in Calls |-> <<>>]
  /\ crashed = FALSE
  /\ help = FALSE
  /\ last = Done("init", "none", <<>>)
  /\ PaintUnused
  /\ RunsUnused

\* new FrameSet(frames): n = 0 stands for the constructor without frames
FsConstruct(id, n) ==
  /\ id = FsSource
  /\ id \notin FsMade
  /\ Cardinality(FsKnownFrames) + n <= FsMaxFrames
  /\ LET initial == FsNewFrames(FsNewFrame, n)
         fs == FrameSetNew(initial)
     IN  /\ FsCreated(id, FrameSetArray(id, 0), fs)
         /\ fsHist' = [fsHist EXCEPT ![id] =
              [FsNoHist EXCEPT !.origin = IF n = 0 THEN "empty" ELSE "frames",
                               !.initial = initial]]
         /\ fsCall' = FsDone("new", id, "ok", <<>>, 0, 0, <<>>, <<>>)
  /\ UNCHANGED <<ctlVars, paintVars, runVars>>

\* add(frame) with a frame the test has just created
FsAdd(id) ==
  /\ id \in FsMade
  /\ LET fs == FsObject(id)
         frame == FsNewFrame
     IN  IF ~FrameSetCanAdd(fs)
         THEN /\ fsCall' = FsDone("add", id, "throws", <<>>, frame, 0, <<>>, <<>>)
              /\ UNCHANGED <<fsSets, fsArrays, fsHist>>
         ELSE /\ Cardinality(FsKnownFrames) < FsMaxFrames
              /\ FsStored(id, FrameSetAdd(fs, frame))
              /\ fsHist' = [fsHist EXCEPT ![id].added = Append(@, frame)]
              /\ fsCall' = FsDone("add", id, "ok", <<"add">>, frame, 0, <<>>, <<>>)
  /\ UNCHANGED <<ctlVars, paintVars, runVars>>

\* finalize()
FsFinalize(id) ==
  /\ id \in FsMade
  /\ LET fs == FsObject(id)
         events == IF fs.finalized THEN <<>> ELSE <<"finalize">>
     IN  /\ FsStored(id, FrameSetFinalize(fs))
         /\ fsHist' = [fsHist EXCEPT ![id].finalizeCalled = TRUE,
                                     ![id].finalizeEvents = @ + Len(events)]
         /\ fsCall' = FsDone("finalize", id, "ok", events, 0, 0, <<>>, <<>>)
  /\ UNCHANGED <<ctlVars, paintVars, runVars>>

\* hasNext()
FsHasNext(id) ==
  /\ id \in FsMade
  /\ fsCall' = FsDone("hasNext", id,
                      IF FrameSetHasNext(FsObject(id)) THEN "true" ELSE "false",
                      <<>>, 0, 0, <<>>, <<>>)
  /\ UNCHANGED <<fsSets, fsArrays, fsHist>>
  /\ UNCHANGED <<ctlVars, paintVars, runVars>>

\* next()
FsNextFrame(id) ==
  /\ id \in FsMade
  /\ LET fs == FsObject(id)
     IN  IF ~FrameSetHasNext(fs)
         THEN /\ fsCall' = FsDone("next", id, "throws", <<>>, 0, 0, <<>>, <<>>)
              /\ UNCHANGED <<fsSets, fsArrays, fsHist>>
         ELSE /\ FsStored(id, FrameSetNext(fs))
              /\ fsHist' = [fsHist EXCEPT ![id].out = Append(@, FrameSetNextFrame(fs))]
              /\ fsCall' = FsDone("next", id, "ok", <<"next">>, FrameSetNextFrame(fs),
                                  0, <<>>, <<>>)
  /\ UNCHANGED <<ctlVars, paintVars, runVars>>

\* subSet(begin, end) on set id; the set returned takes identifier into
FsSubSet(id, into, begin, end) ==
  /\ id \in FsMade
  /\ id = FsSource
  /\ into = FsDerived
  /\ into \notin FsMade
  /\ LET fs == FrameSetSubSet(FsObject(id), begin, end)
     IN  /\ FsCreated(into, FrameSetArray(into, fsSets[id].array), fs)
         /\ fsHist' = [fsHist EXCEPT ![into] =
              [FsNoHist EXCEPT !.origin = "subSet", !.initial = fs.frames]]
         /\ fsCall' = FsDone("subSet", id, "ok", <<>>, 0, into, begin, end)
  /\ UNCHANGED <<ctlVars, paintVars, runVars>>

FsNext ==
  \/ \E id \in FsSetIds, n \in 0..2 : FsConstruct(id, n)
  \/ \E id \in FsSetIds : FsAdd(id)
  \/ \E id \in FsSetIds : FsFinalize(id)
  \/ \E id \in FsSetIds : FsHasNext(id)
  \/ \E id \in FsSetIds : FsNextFrame(id)
  \/ \E id \in FsSetIds, into \in FsSetIds, begin \in FsSliceArgs, end \in FsSliceArgs :
       FsSubSet(id, into, begin, end)

FsSpec == FsInit /\ [][FsNext]_vars

\* ---------------------------------------------------- FrameSet properties
\* the frames set id holds, before and after a step
FsFrames(id) == fsArrays[fsSets[id].array]

FsFramesAfter(id) == fsArrays'[fsSets'[id].array]

\* every frame set id ever held, in the order it took them in
FsIn(id) == fsHist[id].initial \o fsHist[id].added

\* C11: a FrameSet is first in, first out: the k-th frame next() has returned
\* is the k-th frame the set took in, and a set created empty that took in
\* two frames and was finalized has, after two next() calls, returned the two
\* in order, is empty and is finalized.
C11_Fifo ==
  \A id \in FsMade :
    /\ Len(fsHist[id].out) <= Len(FsIn(id))
    /\ \A k \in 1..Len(fsHist[id].out) : fsHist[id].out[k] = FsIn(id)[k]
    /\ (/\ fsHist[id].origin = "empty"
        /\ Len(fsHist[id].added) = 2
        /\ fsSets[id].finalized
        /\ Len(fsHist[id].out) = 2)
       => /\ fsHist[id].out = fsHist[id].added
          /\ ~FrameSetHasNext(FsObject(id))
          /\ FsObject(id).finalized

C11_Witness ==
  /\ fsCall.op = "next"
  /\ fsCall.ret = "ok"
  /\ fsHist[fsCall.set].origin = "empty"
  /\ Len(fsHist[fsCall.set].added) = 2
  /\ Len(fsHist[fsCall.set].out) = 2
  /\ fsSets[fsCall.set].finalized

\* C12: in every state of every FrameSet, however it was created,
\* totalLength >= length.
C12_TotalLengthAtLeastLength ==
  \A id \in FsMade : fsSets[id].totalLength >= Len(FsFrames(id))

\* C13: for a FrameSet created empty, totalLength is the number of add calls
\* that succeeded, and once the set is finalized no call changes totalLength.
C13_TotalLengthCountsAdds ==
  [][\A id \in FsMade' :
       fsHist'[id].origin = "empty" =>
         /\ fsSets'[id].totalLength = Len(fsHist'[id].added)
         /\ (id \in FsMade /\ fsSets[id].finalized)
              => fsSets'[id].totalLength = fsSets[id].totalLength]_vars

C13_Witness ==
  /\ fsCall.op = "add"
  /\ fsCall.ret = "throws"
  /\ fsHist[fsCall.set].origin = "empty"
  /\ Len(fsHist[fsCall.set].added) = 2
  /\ FsDerived \in FsMade

\* C14: add on a finalized FrameSet fails, changes nothing and emits no
\* "add" event; add on a set that is not finalized puts the frame at the
\* tail and makes length and totalLength one larger.
C14_Add ==
  [][fsCall'.op = "add" =>
       LET id == fsCall'.set
       IN  IF fsSets[id].finalized
           THEN /\ fsCall'.ret = "throws"
                /\ fsCall'.events = <<>>
                /\ FsFramesAfter(id) = FsFrames(id)
                /\ fsSets'[id] = fsSets[id]
           ELSE /\ fsCall'.ret = "ok"
                /\ FsFramesAfter(id) = Append(FsFrames(id), fsCall'.frame)
                /\ Len(FsFramesAfter(id)) = Len(FsFrames(id)) + 1
                /\ fsSets'[id].totalLength = fsSets[id].totalLength + 1]_vars

C14_Witness ==
  /\ fsCall.op = "add"
  /\ fsCall.ret = "ok"
  /\ Len(FsFrames(fsCall.set)) = 2
  /\ fsSets[fsCall.set].totalLength = 3

\* C15: next on an empty FrameSet fails, finalized or not, changes nothing
\* and emits no "next" event; next on a set that has frames removes the head
\* frame only, returns it, and leaves totalLength and finalized alone.
C15_Next ==
  [][fsCall'.op = "next" =>
       LET id == fsCall'.set
       IN  IF Len(FsFrames(id)) = 0
           THEN /\ fsCall'.ret = "throws"
                /\ fsCall'.events = <<>>
                /\ FsFramesAfter(id) = FsFrames(id)
                /\ fsSets'[id] = fsSets[id]
           ELSE /\ fsCall'.ret = "ok"
                /\ fsCall'.frame = Head(FsFrames(id))
                /\ FsFramesAfter(id) = Tail(FsFrames(id))
                /\ fsSets'[id].totalLength = fsSets[id].totalLength
                /\ fsSets'[id].finalized = fsSets[id].finalized]_vars

C15_Witness ==
  /\ fsCall.op = "next"
  /\ fsCall.ret = "throws"
  /\ ~fsSets[fsCall.set].finalized
  /\ fsSets[fsCall.set].totalLength = 2

\* C16 (as stated): on a FrameSet on which finalize has been called, the
\* "finalize" notification has been emitted exactly once.
C16_FinalizeEmittedExactlyOnce ==
  \A id \in FsMade :
    fsHist[id].finalizeCalled => fsHist[id].finalizeEvents = 1

\* C16 (amended): the finalized flag never goes back to false; finalize
\* leaves the set finalized and changes neither the frames nor totalLength;
\* the "finalize" notification is emitted by the finalize call that finds
\* the flag false and by no other call, so at most once per set.
C16_Finalize ==
  [][/\ \A id \in FsMade : fsSets[id].finalized => fsSets'[id].finalized
     /\ \A id \in FsMade' : fsHist'[id].finalizeEvents <= 1
     /\ fsCall'.op = "finalize" =>
          LET id == fsCall'.set
          IN  /\ fsSets'[id].finalized
              /\ FsFramesAfter(id) = FsFrames(id)
              /\ fsSets'[id].totalLength = fsSets[id].totalLength
              /\ fsCall'.events =
                   IF fsSets[id].finalized THEN <<>> ELSE <<"finalize">>
              /\ fsHist'[id].finalizeEvents =
                   fsHist[id].finalizeEvents + Len(fsCall'.events)
     /\ fsCall'.op # "finalize" =>
          \A id \in FsMade : fsHist'[id].finalizeEvents = fsHist[id].finalizeEvents]_vars

C16_Witness ==
  /\ fsCall.op = "finalize"
  /\ fsCall.events = <<>>
  /\ fsHist[fsCall.set].finalizeEvents = 1
  /\ FrameSetHasNext(FsObject(fsCall.set))

\* C17: subSet(begin, end) returns a new FrameSet holding the frames of the
\* source from begin up to end, in order, with the source's finalized flag and
\* a totalLength equal to the number of frames it holds; it leaves the source
\* as it was, and no add, next or finalize on one of the two sets changes
\* the other.
C17_SubSet ==
  [][/\ fsCall'.op = "subSet" =>
          LET src == fsCall'.set
              new == fsCall'.into
              a == FsFrames(src)
              begin == fsCall'.begin
              end == fsCall'.end
          IN  /\ new \notin FsMade
              /\ new \in FsMade'
              /\ fsSets'[src] = fsSets[src]
              /\ FsFramesAfter(src) = a
              /\ fsSets'[new].finalized = fsSets[src].finalized
              /\ fsSets'[new].totalLength = Len(FsFramesAfter(new))
              /\ \E from \in 0..Len(a), to \in 0..Len(a) :
                   /\ Len(FsFramesAfter(new)) = (IF to > from THEN to - from ELSE 0)
                   /\ \A i \in 1..Len(FsFramesAfter(new)) : FsFramesAfter(new)[i] = a[from + i]
              /\ (/\ begin # <<>>
                  /\ end # <<>>
                  /\ 0 <= begin[1]
                  /\ begin[1] <= end[1]
                  /\ end[1] <= Len(a))
                 => /\ Len(FsFramesAfter(new)) = end[1] - begin[1]
                    /\ \A i \in 1..(end[1] - begin[1]) :
                         FsFramesAfter(new)[i] = a[begin[1] + i]
     /\ fsCall'.op \in {"add", "next", "finalize", "hasNext"} =>
          \A other \in FsMade \ {fsCall'.set} :
            /\ fsSets'[other] = fsSets[other]
            /\ FsFramesAfter(other) = FsFrames(other)]_vars

C17_Witness ==
  /\ fsCall.op = "next"
  /\ fsCall.ret = "ok"
  /\ fsCall.set = FsDerived
  /\ Len(fsHist[FsSource].added) > 0
  /\ Len(FsFrames(FsSource)) = 3
  /\ Len(FsFrames(FsDerived)) = 1

\* ======================================================================
\* Frames asked for Paints (Frame in src/frame/FrameSet.js, src/frame/Paint.js,
\* Color in src/Color.js, src/Dimension.js)
\*
\* A test holds three Frames of one medium: frame 1 built from any pixel
\* data, frame 2 built from the same pixel data as frame 1, and frame 3 of
\* one color.  It
\* calls getPaint on any of them for the Dimension of its view port,
\* passing no previous frame or any of the three frames (the frame itself
\* included).  One step is one such call together with the call it makes
\* on the previous frame.
TRANSPARENT_ANSI == -1

\* what stands for null and for undefined where a color code is expected;
\* both lie outside the codes -1..255
NullColor == 0 - 2
UndefinedColor == 0 - 3

ASCII_CHARACTER == "#"

\* ------------------------------------------------------------------ Color
\* new Color(red, green, blue, alpha); every pixel here has its alpha component
Color(red, green, blue, alpha) ==
  [red |-> red, green |-> green, blue |-> blue, alpha |-> alpha]

CloseAnsi == "<ESC>[39m"

AnsiText(code) ==
  IF code = NullColor THEN "null"
  ELSE IF code = UndefinedColor THEN "undefined"
  ELSE ToString(code)

OpenAnsi(code) == "<ESC>[38;5;" \o AnsiText(code) \o "m"

\* (a grayscale test that knows the gray ramp only)
IsAnsiGrayscaleRamp(code) == code >= 232

IsAnsiGrayscale(code) == code >= 232 \/ code = 59 \/ code = 16

\* (a color that counts as transparent only when it is fully clear)
HasTransparencyWhenClear(color) == color.alpha = 0

HasTransparency(color) == color.alpha < 255

\* Math.round of num / den for num >= 0, den > 0
Round(num, den) == (2 * num + den) \div (2 * den)

\* rgb.ansi256 of the color-convert package, which toAnsi calls: the
\* grayscale ramp for r = g = b, the 6x6x6 color cube otherwise
Ansi256(r, g, b) ==
  IF r = g /\ g = b
  THEN IF r < 8 THEN 16
       ELSE IF r > 248 THEN 231
       ELSE Round((r - 8) * 24, 247) + 232
  ELSE 16 + 36 * Round(r * 5, 255) + 6 * Round(g * 5, 255) + Round(b * 5, 255)

\* toAnsi(); the process-wide cache only remembers what Ansi256 returned
ToAnsi(color) == Ansi256(color.red, color.green, color.blue)

\* -------------------------------------------------------------- Dimension
Abs(n) == IF n < 0 THEN 0 - n ELSE n

Dimension(width, height) == [width |-> Abs(width), height |-> Abs(height)]

DimensionToString(dimension) ==
  ToString(dimension.width) \o "x" \o ToString(dimension.height)

\* ------------------------------------------------------------------ Paint
NullPaint ==
  [isNull |-> TRUE, frame |-> 0, ascii |-> "", colors |-> <<>>,
   last |-> [none |-> TRUE, colors |-> <<>>]]

\* the histogram of a cell no pixel fell into
NoHistogram == <<>>

RECURSIVE Ascending(_)
Ascending(S) ==
  IF S = {} THEN <<>>
  ELSE LET least == CHOOSE x \in S : \A y \in S : x <= y
       IN  <<least>> \o Ascending(S \ {least})

\* (keys in descending order of code)
ObjectKeysDescending(colors) ==
  LET keys == Ascending({0 - c : c \in DOMAIN colors})
  IN  [k \in 1..Len(keys) |-> 0 - keys[k]]

\* Object.keys of a histogram: the codes 0..255 are integer keys and come
\* first in ascending order, "-1" is a string key and comes after them
ObjectKeys(colors) ==
  Ascending({c \in DOMAIN colors : c >= 0}) \o
    (IF TRANSPARENT_ANSI \in DOMAIN colors THEN <<TRANSPARENT_ANSI>> ELSE <<>>)

\* previousColors[index], index counted from 0
ColorAt(colors, index) ==
  IF index < Len(colors) THEN colors[index + 1] ELSE UndefinedColor

\* (a paint that takes every color from the previous paint)
TakesPreviousColorAlways(ansiColor, previousColors) == ~previousColors.none

\* whether the color of an entry is taken from the previous paint
TakesPreviousColor(ansiColor, previousColors) ==
  ansiColor = TRANSPARENT_ANSI /\ ~previousColors.none

\* Paint[_getProminentColor]: the entries in key order, the first of those
\* with the largest count being the one a stable descending sort puts first
\* (every sort of V8 is stable on the few keys a histogram has here).  Counts
\* are doubled throughout so that halving stays in the integers.
GetProminentColor(index, colors, previousColors) ==
  IF DOMAIN colors = {}
  THEN NullColor
  ELSE LET keys == ObjectKeys(colors)
           ansiColor(k) ==
             IF TakesPreviousColor(keys[k], previousColors)
             THEN ColorAt(previousColors.colors, index)
             ELSE keys[k]
           count(k) ==
             IF IsAnsiGrayscale(ansiColor(k))
             THEN colors[keys[k]]
             ELSE 2 * colors[keys[k]]
           first == CHOOSE k \in 1..Len(keys) :
                      /\ \A j \in 1..Len(keys) : count(j) <= count(k)
                      /\ \A j \in 1..(k - 1) : count(j) < count(k)
       IN  ansiColor(first)

\* (a paint that never closes the styling between two cells)
ClosesBeforeOpenNever(ascii) == FALSE

\* whether the styling is closed before a new one is opened: the string
\* has something in it
ClosesBeforeOpen(ascii) == ascii # ""

\* the loop of the Paint constructor from cell i on
RECURSIVE PaintFrom(_, _, _, _)
PaintFrom(countedColors, previousColors, i, acc) ==
  IF i >= Len(countedColors)
  THEN acc
  ELSE LET ansiColor == GetProminentColor(i, countedColors[i + 1], previousColors)
           changed == ansiColor # acc.previousColor
           closed == IF changed /\ ClosesBeforeOpen(acc.ascii)
                     THEN acc.ascii \o CloseAnsi
                     ELSE acc.ascii
           opened == IF changed THEN closed \o OpenAnsi(ansiColor) ELSE closed
       IN  PaintFrom(countedColors, previousColors, i + 1,
                     [ascii |-> opened \o ASCII_CHARACTER,
                      colors |-> Append(acc.colors, ansiColor),
                      previousColor |-> IF changed THEN ansiColor ELSE acc.previousColor])

\* new Paint(frame, countedColors, lastPaint); last records the colors of
\* lastPaint the paint was built against
PaintNew(frame, countedColors, lastPaint) ==
  LET previousColors == [none |-> lastPaint.isNull, colors |-> lastPaint.colors]
      done == PaintFrom(countedColors, previousColors, 0,
                        [ascii |-> "", colors |-> <<>>, previousColor |-> NullColor])
  IN  [isNull |-> FALSE, frame |-> frame.index,
       ascii |-> IF done.ascii # "" THEN done.ascii \o CloseAnsi ELSE done.ascii,
       colors |-> done.colors, last |-> previousColors]

\* ------------------------------------------------------------------ Frame
PixelLength == 4

\* getPixelColor(pixels, index), index counted from 0
GetPixelColor(pixels, index) ==
  LET color == Color(pixels[index + 1], pixels[index + 2], pixels[index + 3],
                     pixels[index + 4])
  IN  IF HasTransparency(color) THEN TRANSPARENT_ANSI ELSE ToAnsi(color)

\* Math.floor(n / Math.max(size / viewSize, 1) / ... ) is computed in the
\* integers: floor(n / (size / viewSize)) = floor(n * viewSize / size).  The
\* dimensions used here make size / viewSize 1, 3/2, 2 or 3, which floating
\* point represents exactly, and no quotient falls next to an integer.
FloorOverBlock(n, size, viewSize) ==
  IF size > viewSize THEN (n * viewSize) \div size ELSE n

\* (every pixel a cell of its own)
CellIndexOfPixel(pixelIndex, source, dimension) == pixelIndex

\* (a column that is not wrapped to the width of the view port)
CellIndexUnwrapped(pixelIndex, source, dimension) ==
  FloorOverBlock(pixelIndex, source.width, dimension.width)
  + (IF source.height > dimension.height
     THEN (pixelIndex * dimension.height) \div (source.width * source.height)
     ELSE pixelIndex \div source.width) * dimension.width

\* the cell a pixel falls into
CellIndex(pixelIndex, source, dimension) ==
  (FloorOverBlock(pixelIndex, source.width, dimension.width) % dimension.width)
  + (IF source.height > dimension.height
     THEN (pixelIndex * dimension.height) \div (source.width * source.height)
     ELSE pixelIndex \div source.width) * dimension.width

\* the loop of Frame[_countColors] from component i on; counts is a sparse
\* array, so a cell that is skipped stays a hole
RECURSIVE CountFrom(_, _, _, _)
CountFrom(frame, dimension, i, counts) ==
  IF i >= Len(frame.pixels)
  THEN counts
  ELSE LET pixelIndex == i \div PixelLength
           index == CellIndex(pixelIndex, frame.dimension, dimension)
           grown == IF index >= Len(counts)
                    THEN counts \o [k \in 1..(index + 1 - Len(counts)) |-> NoHistogram]
                    ELSE counts
           color == GetPixelColor(frame.pixels, i)
           cell == grown[index + 1]
           counted == IF color \in DOMAIN cell
                      THEN [cell EXCEPT ![color] = @ + 1]
                      ELSE cell @@ (color :> 1)
       IN  CountFrom(frame, dimension, i + PixelLength,
                     [grown EXCEPT ![index + 1] = counted])

CountColors(frame, dimension) == CountFrom(frame, dimension, 0, <<>>)

\* the pixel colors, view ports and media sizes the test uses
Red == <<255, 0, 0, 255>>
Gray == <<128, 128, 128, 255>>
Clear == <<0, 0, 0, 128>>
Palette == {Red, Gray, Clear}

PaintSourceDimensions == {Dimension(2, 1), Dimension(1, 2)}
PaintDimensions == {Dimension(1, 1), Dimension(2, 2)}
PaintKeys == {DimensionToString(d) : d \in PaintDimensions}

PaintFrameIds == {1, 2, 3}
NoFrameId == 0

\* the pixel buffers of two pixels, and those of one color
PixelData == {first \o second : first \in Palette, second \in Palette}

UniformPixelData == {color \o color : color \in Palette}

\* new Frame(index, pixels, width, height)
FrameNew(index, pixels, width, height) ==
  [index |-> index, pixels |-> pixels, dimension |-> Dimension(width, height),
   paintCache |-> [key \in PaintKeys |-> NullPaint]]

NoPaintCall ==
  [op |-> "init", frame |-> 0, key |-> "", previous |-> NoFrameId,
   ret |-> NullPaint, built |-> FALSE]

PaintInit ==
  /\ \E source \in PaintSourceDimensions, same \in PixelData, other \in UniformPixelData :
       pFrames = [f \in PaintFrameIds |->
                    FrameNew(f, IF f = 3 THEN other ELSE same,
                             source.width, source.height)]
  /\ pView \in PaintDimensions
  /\ pCall = NoPaintCall
  /\ state = STOPPED
  /\ display = DisplayNew
  /\ frameSets = [c \in Calls |-> FrameSetNew(<<>>)]
  /\ readers = [c \in Calls |-> NoReaders]
  /\ calls = [c \in Calls |-> "none"]
  /\ added = [c \in Calls |-> <<>>]
  /\ painted = [c \in Calls |-> <<>>]
  /\ crashed = FALSE
  /\ help = FALSE
  /\ last = Done("init", "none", <<>>)
  /\ FsUnused
  /\ RunsUnused

\* (a cache that is passed over when a previous frame is given)
CacheMissOrPrevious(paint, previousFrame) ==
  paint.isNull \/ previousFrame # NoFrameId

\* whether getPaint builds a Paint: the cache has none for the key
CacheMiss(paint, previousFrame) == paint.isNull

\* frame.getPaint(dimension, previousFrame); previousFrame is NoFrameId when
\* none is passed
GetPaint(f, dimension, previousFrame) ==
  LET frame == pFrames[f]
      cacheKey == DimensionToString(dimension)
      cached == frame.paintCache[cacheKey]
  IN  IF ~CacheMiss(cached, previousFrame)
      THEN /\ pFrames' = pFrames
           /\ pCall' = [op |-> "getPaint", frame |-> f, key |-> cacheKey,
                        previous |-> previousFrame, ret |-> cached, built |-> FALSE]
      ELSE LET countedColors == CountColors(frame, dimension)
               \* previousFrame && previousFrame.getPaint(dimension)
               previous == IF previousFrame = NoFrameId THEN frame ELSE pFrames[previousFrame]
               lastCached == previous.paintCache[cacheKey]
               lastPaint ==
                 IF previousFrame = NoFrameId THEN NullPaint
                 ELSE IF ~CacheMiss(lastCached, NoFrameId) THEN lastCached
                 ELSE PaintNew(previous, CountColors(previous, dimension), NullPaint)
               afterLast ==
                 IF previousFrame = NoFrameId THEN pFrames
                 ELSE [pFrames EXCEPT ![previousFrame].paintCache[cacheKey] = lastPaint]
               paint == PaintNew(frame, countedColors, lastPaint)
           IN  /\ pFrames' = [afterLast EXCEPT ![f].paintCache[cacheKey] = paint]
               /\ pCall' = [op |-> "getPaint", frame |-> f, key |-> cacheKey,
                            previous |-> previousFrame, ret |-> paint, built |-> TRUE]

\* the test's call, for the Dimension of its view port
FrameGetPaint(f, previousFrame) ==
  /\ GetPaint(f, pView, previousFrame)
  /\ UNCHANGED <<pView, ctlVars, fsVars, runVars>>

PaintNext ==
  \E f \in PaintFrameIds, previousFrame \in PaintFrameIds \cup {NoFrameId} :
    FrameGetPaint(f, previousFrame)

PaintSpec == PaintInit /\ [][PaintNext]_vars

\* ------------------------------------------------------- Paint properties
PaintKey == DimensionToString(pView)

\* the Paint frame f holds for the view port
PaintOf(f) == pFrames[f].paintCache[PaintKey]

PixelIndexes(frame) == 0..(Len(frame.pixels) \div PixelLength - 1)

\* the alpha component of pixel p
Alpha(frame, p) == frame.pixels[p * PixelLength + 4]

HasTransparentPixel(frame) ==
  \E p \in PixelIndexes(frame) : Alpha(frame, p) < 255

AllPixelsTransparent(frame) ==
  \A p \in PixelIndexes(frame) : Alpha(frame, p) < 255

\* the cells of the view port that pixels of the frame fall into
CellsWithPixels(frame) ==
  {CellIndex(p, frame.dimension, pView) : p \in PixelIndexes(frame)}

C19_SameDataSamePaint ==
  \A f \in PaintFrameIds, g \in PaintFrameIds :
    (/\ f # g
     /\ pFrames[f].pixels = pFrames[g].pixels
     /\ pFrames[f].dimension = pFrames[g].dimension
     /\ ~PaintOf(f).isNull
     /\ ~PaintOf(g).isNull)
    => PaintOf(f).ascii = PaintOf(g).ascii

\* C19 (amended): they hold Paints with the same output string when the
\* pixel data have no transparent pixel, or when the two Paints were built
\* against previous Paints with the same colors (or both against none).
C19_SameDataSamePaintGivenPrevious ==
  \A f \in PaintFrameIds, g \in PaintFrameIds :
    (/\ f # g
     /\ pFrames[f].pixels = pFrames[g].pixels
     /\ pFrames[f].dimension = pFrames[g].dimension
     /\ ~PaintOf(f).isNull
     /\ ~PaintOf(g).isNull
     /\ \/ ~HasTransparentPixel(pFrames[f])
        \/ PaintOf(f).last = PaintOf(g).last)
    => PaintOf(f).ascii = PaintOf(g).ascii

C19_Witness ==
  /\ ~PaintOf(1).isNull
  /\ ~PaintOf(2).isNull
  /\ ~HasTransparentPixel(pFrames[1])
  /\ PaintOf(1).last.none
  /\ ~PaintOf(2).last.none
  /\ PaintOf(2).last.colors # PaintOf(1).colors

\* C20: a Paint built for a Frame whose pixels are all transparent, against
\* a previous Paint, has in every cell that pixels fall into the color the
\* previous Paint has in that cell.
C20_TransparentFrameKeepsPreviousColors ==
  \A f \in PaintFrameIds :
    (/\ ~PaintOf(f).isNull
     /\ AllPixelsTransparent(pFrames[f])
     /\ ~PaintOf(f).last.none)
    => \A cell \in CellsWithPixels(pFrames[f]) :
         ColorAt(PaintOf(f).colors, cell) = ColorAt(PaintOf(f).last.colors, cell)

C20_Witness ==
  /\ pCall.op = "getPaint"
  /\ pCall.built
  /\ AllPixelsTransparent(pFrames[pCall.frame])
  /\ ~pCall.ret.last.none
  /\ Len(pCall.ret.colors) = 4
  /\ ColorAt(pCall.ret.colors, 0) # ColorAt(pCall.ret.colors, 3)
  /\ ColorAt(pCall.ret.colors, 0) # TRANSPARENT_ANSI

\* ======================================================================
\* The command line and the refresh rate of the display it creates
\* (src/CommandLineInterface.js, src/display/BlessedDisplay.js)
\*
\* A run starts with the arguments of the program: no -r option, or -r with
\* a text of up to MaxDigits characters.  CommandLineInterface.parse reads
\* the option and creates the display; the display starts its interval when
\* it is unfrozen.
\* ======================================================================
\* the longest text given to -r
MaxDigits == 3

\* JavaScript values: undefined, NaN, a number, or a string (the sequence
\* of its characters)
JsUndefined == [type |-> "undefined", n |-> 0, text |-> <<>>]
JsNaN == [type |-> "NaN", n |-> 0, text |-> <<>>]
JsNumber(n) == [type |-> "number", n |-> n, text |-> <<>>]
JsString(text) == [type |-> "string", n |-> 0, text |-> text]

\* ToBoolean of an undefined, NaN or number value
Truthy(v) == v.type = "number" /\ v.n # 0

DecimalDigits == <<"0", "1", "2", "3", "4", "5", "6", "7", "8", "9">>
DigitChars == {DecimalDigits[i] : i \in 1..10}
DigitValue(ch) == (CHOOSE i \in 1..10 : DecimalDigits[i] = ch) - 1

RefreshChars == {"0", "1", "6", "m"}

\* parseInt(text, undefined): the decimal digits text starts with
RECURSIVE ParseDigits(_, _, _)
ParseDigits(text, i, acc) ==
  IF i > Len(text) \/ text[i] \notin DigitChars THEN acc
  ELSE ParseDigits(text, i + 1, 10 * acc + DigitValue(text[i]))

ParseInt(text) ==
  IF text = <<>> \/ text[1] \notin DigitChars THEN JsNaN
  ELSE JsNumber(ParseDigits(text, 1, 0))

\* the -r option in the arguments: none, or its text
NoRefreshOption == <<>>
RefreshTexts == UNION {[1..n -> RefreshChars] : n \in 1..MaxDigits}
RefreshOptions == {NoRefreshOption} \cup RefreshTexts

\* command.refresh after Command.parse: the option's text through parseInt
CommandRefresh(option) ==
  IF option = NoRefreshOption THEN JsUndefined ELSE ParseInt(option)

\* the refresh rate of a Display created without one
DefaultRefreshRate == 10

\* Display constructor: options.refreshRate || 10
DisplayRefreshRate(options) ==
  IF Truthy(options.refreshRate) THEN options.refreshRate
  ELSE JsNumber(DefaultRefreshRate)

NoOptions == [refreshRate |-> JsUndefined]
NoCliDisplay == [refreshRate |-> JsUndefined, frozen |-> TRUE, interval |-> JsUndefined]

\* no playback is going on in the runs below
NoPlayback ==
  /\ state = STOPPED
  /\ display = DisplayNew
  /\ frameSets = [c \in Calls |-> FrameSetNew(<<>>)]
  /\ readers = [c \in Calls |-> NoReaders]
  /\ calls = [c \in Calls |-> "none"]
  /\ added = [c \in Calls |-> <<>>]
  /\ painted = [c \in Calls |-> <<>>]
  /\ crashed = FALSE
  /\ help = FALSE
  /\ last = Done("init", "none", <<>>)

CliInit ==
  /\ \E option \in RefreshOptions :
       cliRun = [option |-> option, step |-> "start",
                 displayOptions |-> NoOptions, display |-> NoCliDisplay]
  /\ colorRun = <<>>
  /\ quantRun = <<>>
  /\ NoPlayback
  /\ FsUnused
  /\ PaintUnused

\* CommandLineInterface.parse(args): reads the options and creates the
\* display from them
CommandLineInterfaceParse ==
  /\ cliRun.step = "start"
  /\ LET displayOptions == [refreshRate |-> CommandRefresh(cliRun.option)]
     IN cliRun' = [cliRun EXCEPT
                     !.step = "parsed",
                     !.displayOptions = displayOptions,
                     !.display = [refreshRate |-> DisplayRefreshRate(displayOptions),
                                  frozen |-> TRUE,
                                  interval |-> JsUndefined]]
  /\ UNCHANGED <<colorRun, quantRun, ctlVars, fsVars, paintVars>>

\* display.frozen = false: setInterval(paintNextFrame, this.refreshRate)
CliDisplayUnfreeze ==
  /\ cliRun.step = "parsed"
  /\ cliRun' = [cliRun EXCEPT !.step = "running",
                              !.display.frozen = FALSE,
                              !.display.interval = cliRun.display.refreshRate]
  /\ UNCHANGED <<colorRun, quantRun, ctlVars, fsVars, paintVars>>

CliNext == CommandLineInterfaceParse \/ CliDisplayUnfreeze

CliSpec == CliInit /\ [][CliNext]_vars

\* C25: when no refresh rate is given (no -r option, so options.refreshRate
\* is absent) the display ticks every 60 milliseconds.
C25_DefaultRefreshRate ==
  (cliRun.step = "running" /\ cliRun.option = NoRefreshOption) =>
     /\ cliRun.display.refreshRate = JsNumber(60)
     /\ cliRun.display.interval = JsNumber(60)

\* ======================================================================
\* Color.serialize and Color.deserialize (Color.js)
\*
\* A run creates a Color from numbers (alpha may be left out), serializes
\* it and deserializes the text.
\* ======================================================================
\* the text of a non-negative integer, as a template literal writes it
RECURSIVE NumberText(_)
NumberText(n) ==
  IF n < 10 THEN <<DecimalDigits[n + 1]>>
  ELSE NumberText(n \div 10) \o <<DecimalDigits[(n % 10) + 1]>>

\* ToString of a number or string value
JsToText(v) == IF v.type = "string" THEN v.text ELSE NumberText(v.n)

\* ToNumber of a number, or of a string of decimal digits
JsToNumber(v) == IF v.type = "string" THEN ParseDigits(v.text, 1, 0) ELSE v.n

\* new Color(red, green, blue, alpha): alpha != null ? alpha : 255
ColorNew(red, green, blue, alpha) ==
  Color(red, green, blue, IF alpha = JsUndefined THEN JsNumber(255) ELSE alpha)

\* `${color.red},${color.green},${color.blue},${color.alpha}`
ColorSerialize(color) ==
  JsToText(color.red) \o <<",">> \o JsToText(color.green) \o <<",">>
    \o JsToText(color.blue) \o <<",">> \o JsToText(color.alpha)

\* text.split(','): the strings between the commas
RECURSIVE SplitFrom(_, _, _)
SplitFrom(text, i, part) ==
  IF i > Len(text) THEN <<JsString(part)>>
  ELSE IF text[i] = "," THEN <<JsString(part)>> \o SplitFrom(text, i + 1, <<>>)
  ELSE SplitFrom(text, i + 1, Append(part, text[i]))

Split(text) == SplitFrom(text, 1, <<>>)

\* Color.deserialize(color): new Color(rgb[0], rgb[1], rgb[2], rgb[3])
ColorDeserialize(text) ==
  LET rgb == Split(text)
      at(i) == IF i <= Len(rgb) THEN rgb[i] ELSE JsUndefined
  IN ColorNew(at(1), at(2), at(3), at(4))

\* the numbers the comparisons and the arithmetic of hasTransparency and
\* rgb.ansi256 make of the components
ColorNumbers(color) ==
  Color(JsToNumber(color.red), JsToNumber(color.green),
        JsToNumber(color.blue), JsToNumber(color.alpha))

ComponentValues == {0, 9, 10, 128, 255}
NoColor == Color(JsUndefined, JsUndefined, JsUndefined, JsUndefined)

ColorInit ==
  /\ \E red, green, blue \in ComponentValues :
       \E alpha \in {JsNumber(a) : a \in ComponentValues} \cup {JsUndefined} :
         colorRun = [color |-> ColorNew(JsNumber(red), JsNumber(green),
                                        JsNumber(blue), alpha),
                     step |-> "created",
                     serialized |-> <<>>,
                     deserialized |-> NoColor]
  /\ cliRun = <<>>
  /\ quantRun = <<>>
  /\ NoPlayback
  /\ FsUnused
  /\ PaintUnused

\* Color.serialize(color)
ColorSerializeCall ==
  /\ colorRun.step = "created"
  /\ colorRun' = [colorRun EXCEPT !.step = "serialized",
                                  !.serialized = ColorSerialize(colorRun.color)]
  /\ UNCHANGED <<cliRun, quantRun, ctlVars, fsVars, paintVars>>

\* Color.deserialize(text)
ColorDeserializeCall ==
  /\ colorRun.step = "serialized"
  /\ colorRun' = [colorRun EXCEPT !.step = "deserialized",
                                  !.deserialized = ColorDeserialize(colorRun.serialized)]
  /\ UNCHANGED <<cliRun, quantRun, ctlVars, fsVars, paintVars>>

ColorNext == ColorSerializeCall \/ ColorDeserializeCall

ColorSpec == ColorInit /\ [][ColorNext]_vars

\* C24: Color.deserialize(Color.serialize(c)) is a Color whose red, green,
\* blue and alpha are identical to those of c, so that serialize,
\* hasTransparency and toAnsi agree on the two.
C24_RoundTrip ==
  colorRun.step = "deserialized" =>
    LET c == colorRun.color
        d == colorRun.deserialized
    IN /\ d.red = c.red
       /\ d.green = c.green
       /\ d.blue = c.blue
       /\ d.alpha = c.alpha
       /\ ColorSerialize(d) = ColorSerialize(c)
       /\ HasTransparency(ColorNumbers(d)) = HasTransparency(ColorNumbers(c))
       /\ ToAnsi(ColorNumbers(d)) = ToAnsi(ColorNumbers(c))

\* ======================================================================
\* Quantization of one Frame (Frame[_countColors], Paint constructor)
\*
\* A run creates a Frame of some size whose pixels follow a pattern of two
\* colors, and asks it for its Paint for a view port, with or without a
\* previous Frame (of one color, as large as the Frame).  Nothing is
\* cached before the call.
\* ======================================================================
\* the longest side of a Frame and of a view port
MaxSide == 2

QuantizeDimensions == {Dimension(w, h) : w, h \in 1..MaxSide}

\* further pixel colors: codes 21, 16 (grayscale) and 59 (grayscale)
Blue == <<0, 0, 255, 255>>
Black == <<0, 0, 0, 255>>
Dim == <<51, 52, 51, 255>>
QuantizePalette == {Red, Blue, Gray, Black, Dim, Clear}

\* where the first of the two colors goes
\* ("mixed" puts a transparent and a gray pixel between the two)
PixelPatterns == {"uniform", "alternating", "halves", "first", "last", "mixed"}

InPattern(pattern, p, n) ==
  CASE pattern = "uniform" -> TRUE
    [] pattern = "alternating" -> p % 2 = 0
    [] pattern = "halves" -> 2 * p < n
    [] pattern = "first" -> p = 0
    [] pattern = "last" -> p # n - 1
    [] pattern = "mixed" -> p % 4 = 0

\* the color of pixel p
PatternColor(pattern, a, b, p, n) ==
  IF InPattern(pattern, p, n) THEN a
  ELSE IF pattern # "mixed" THEN b
  ELSE IF p % 4 = 1 THEN Clear
  ELSE IF p % 4 = 2 THEN b
  ELSE Gray

\* the pixel buffer of n pixels from pixel p on
RECURSIVE PatternPixels(_, _, _, _, _)
PatternPixels(pattern, a, b, p, n) ==
  IF p >= n THEN <<>>
  ELSE PatternColor(pattern, a, b, p, n) \o PatternPixels(pattern, a, b, p + 1, n)

\* a Frame nothing has been painted from
FreshFrame(index, pixels, dimension) ==
  [index |-> index, pixels |-> pixels, dimension |-> dimension]

NoPreviousFrame == FreshFrame(0, <<>>, Dimension(0, 0))

QuantizeInit ==
  /\ \E source \in QuantizeDimensions, view \in QuantizeDimensions,
        pattern \in PixelPatterns, a \in QuantizePalette, b \in QuantizePalette,
        previous \in {<<>>, Red, Gray} :
       LET n == source.width * source.height
       IN quantRun =
            [frame |-> FreshFrame(2, PatternPixels(pattern, a, b, 0, n), source),
             previousFrame |->
               IF previous = <<>> THEN NoPreviousFrame
               ELSE FreshFrame(1, PatternPixels("uniform", previous, previous, 0, n),
                               source),
             view |-> view,
             step |-> "created",
             counted |-> <<>>,
             lastPaint |-> NullPaint,
             paint |-> NullPaint]
  /\ cliRun = <<>>
  /\ colorRun = <<>>
  /\ NoPlayback
  /\ FsUnused
  /\ PaintUnused

\* frame.getPaint(dimension, previousFrame) with empty caches: the Paint of
\* the previous Frame is built first, without a previous Paint of its own
QuantizeGetPaint ==
  /\ quantRun.step = "created"
  /\ LET frame == quantRun.frame
         previousFrame == quantRun.previousFrame
         countedColors == CountColors(frame, quantRun.view)
         lastPaint ==
           IF previousFrame = NoPreviousFrame THEN NullPaint
           ELSE PaintNew(previousFrame, CountColors(previousFrame, quantRun.view),
                         NullPaint)
     IN quantRun' = [quantRun EXCEPT
                       !.step = "painted",
                       !.counted = countedColors,
                       !.lastPaint = lastPaint,
                       !.paint = PaintNew(frame, countedColors, lastPaint)]
  /\ UNCHANGED <<cliRun, colorRun, ctlVars, fsVars, paintVars>>

QuantizeNext == QuantizeGetPaint

QuantizeSpec == QuantizeInit /\ [][QuantizeNext]_vars

\* ------------------------------------------------ quantization properties
\* the code a histogram key stands for in cell i (counted from 0): the
\* sentinel stands for the color of the previous Paint, where there is one
ResolvedCode(key, i) ==
  IF key = TRANSPARENT_ANSI /\ ~quantRun.lastPaint.isNull
  THEN ColorAt(quantRun.lastPaint.colors, i)
  ELSE key

GrayscaleCodes == {16, 59} \cup 232..255

\* C21: a cell whose histogram holds exactly two codes with equal counts,
\* one grayscale (>= 232, 59 or 16) and one not, gets the code that is not
\* grayscale, whichever of the two was counted first.
C21_GrayscaleBias ==
  quantRun.step = "painted" =>
    \A i \in 1..Len(quantRun.counted) :
      LET colors == quantRun.counted[i]
      IN \A gray, other \in DOMAIN colors :
           (/\ DOMAIN colors = {gray, other}
            /\ gray # other
            /\ colors[gray] = colors[other]
            /\ ResolvedCode(gray, i - 1) \in GrayscaleCodes
            /\ ResolvedCode(other, i - 1) \notin GrayscaleCodes)
             => quantRun.paint.colors[i] = ResolvedCode(other, i - 1)

C21_Witness ==
  /\ quantRun.step = "painted"
  /\ quantRun.frame.pixels = Dim \o Red
  /\ quantRun.view = Dimension(1, 1)
  /\ quantRun.counted = <<(59 :> 1) @@ (196 :> 1)>>
  /\ quantRun.paint.colors = <<196>>

RECURSIVE Glyphs(_)
Glyphs(n) == IF n = 0 THEN "" ELSE ASCII_CHARACTER \o Glyphs(n - 1)

\* C22: the Paint of a Frame whose pixels all have one opaque color, for a
\* view port no wider and no higher than the Frame, is one open escape for
\* the code of that color, one glyph per cell of the view port, and one
\* close escape.
C22_UniformFrame ==
  LET frame == quantRun.frame
      view == quantRun.view
      n == Len(frame.pixels) \div PixelLength
      component(p, k) == frame.pixels[p * PixelLength + k]
  IN (/\ quantRun.step = "painted"
      /\ \A p \in 0..(n - 1) : \A k \in 1..PixelLength : component(p, k) = component(0, k)
      /\ component(0, 4) = 255
      /\ view.width <= frame.dimension.width
      /\ view.height <= frame.dimension.height)
       => quantRun.paint.ascii =
            OpenAnsi(Ansi256(component(0, 1), component(0, 2), component(0, 3)))
              \o Glyphs(view.width * view.height) \o CloseAnsi

C22_Witness ==
  /\ quantRun.step = "painted"
  /\ quantRun.frame.dimension = Dimension(2, 2)
  /\ quantRun.frame.pixels = Red \o Red \o Red \o Red
  /\ quantRun.view = Dimension(1, 1)
  /\ quantRun.paint.ascii = "<ESC>[38;5;196m#<ESC>[39m"

\* the string of a Paint with the given cell colors: an open escape at each
\* cell whose color differs from that of the cell before (null before the
\* first), one glyph per cell, a close escape at the end of a string that
\* is not empty and, if closesBetween, before each open escape but the first
RECURSIVE AsciiOfRuns(_, _, _)
AsciiOfRuns(colors, i, closesBetween) ==
  IF i > Len(colors)
  THEN IF Len(colors) > 0 THEN CloseAnsi ELSE ""
  ELSE LET before == IF i = 1 THEN NullColor ELSE colors[i - 1]
           close == IF closesBetween /\ i > 1 THEN CloseAnsi ELSE ""
           open == IF colors[i] # before THEN close \o OpenAnsi(colors[i]) ELSE ""
       IN  open \o ASCII_CHARACTER \o AsciiOfRuns(colors, i + 1, closesBetween)

\* C30, as stated: the open escapes are those of the runs of equal colors,
\* every cell has its glyph, and the one close escape is the last thing in
\* the string.
C30_ClosedOnceAtEnd ==
  quantRun.step = "painted" =>
    /\ Len(quantRun.paint.colors) = Len(quantRun.counted)
    /\ quantRun.paint.ascii = AsciiOfRuns(quantRun.paint.colors, 1, FALSE)

\* C30: the open escapes are those of the runs of equal colors, every cell
\* has its glyph, and a close escape comes before every open escape but the
\* first and at the end: as many close escapes as open ones.
C30_ClosedBeforeEachOpen ==
  quantRun.step = "painted" =>
    /\ Len(quantRun.paint.colors) = Len(quantRun.counted)
    /\ quantRun.paint.ascii = AsciiOfRuns(quantRun.paint.colors, 1, TRUE)

C30_Witness ==
  /\ quantRun.step = "painted"
  /\ Len(quantRun.paint.colors) = 4
  /\ quantRun.paint.colors[1] # quantRun.paint.colors[2]
  /\ quantRun.paint.colors[2] = quantRun.paint.colors[3]
  /\ quantRun.paint.colors[3] # quantRun.paint.colors[4]

\* the cells of the run, counted from 1, and the pixels of its Frame
QuantizeCells == 1..Len(quantRun.counted)

QuantizePixels == 0..(Len(quantRun.frame.pixels) \div PixelLength - 1)

ViewArea == quantRun.view.width * quantRun.view.height

\* the cell (counted from 1) pixel p is counted in, and its histogram key
CellOfPixel(p) == CellIndex(p, quantRun.frame.dimension, quantRun.view) + 1

KeyOfPixel(p) == GetPixelColor(quantRun.frame.pixels, p * PixelLength)

\* C31: the array of histograms has one entry per cell of the view port,
\* vw * vh of them, and so has the array of chosen colors, also for a view
\* port larger than the Frame.
C31_OneHistogramPerCell ==
  quantRun.step = "painted" =>
    /\ Len(quantRun.counted) = ViewArea
    /\ Len(quantRun.paint.colors) = ViewArea

\* C32: a cell without a histogram has the null color and nothing of the
\* string is its own: the string is that of the cells that have one.
C32_EmptyCellEmitsNothing ==
  quantRun.step = "painted" =>
    LET hasColors(i) == DOMAIN quantRun.counted[i] # {}
        filled == {i \in QuantizeCells : hasColors(i)}
        order == Ascending(filled)
    IN /\ \A i \in QuantizeCells \ filled : quantRun.paint.colors[i] = NullColor
       /\ quantRun.paint.ascii =
            AsciiOfRuns([k \in 1..Len(order) |-> quantRun.paint.colors[order[k]]],
                        1, TRUE)

\* the weight of key in cell i: its count, halved when the code it stands
\* for is grayscale (all weights doubled)
KeyWeight(key, i) ==
  IF ResolvedCode(key, i - 1) \in GrayscaleCodes
  THEN quantRun.counted[i][key]
  ELSE 2 * quantRun.counted[i][key]

\* the keys of cell i with the largest weight
HeaviestKeys(i) ==
  {k \in DOMAIN quantRun.counted[i] :
     \A j \in DOMAIN quantRun.counted[i] : KeyWeight(j, i) <= KeyWeight(k, i)}

\* the first pixel of cell i with the key
FirstPixel(key, i) ==
  CHOOSE p \in QuantizePixels :
    /\ CellOfPixel(p) = i /\ KeyOfPixel(p) = key
    /\ \A q \in QuantizePixels :
         (CellOfPixel(q) = i /\ KeyOfPixel(q) = key) => p <= q

\* C33, as stated: of the keys with the largest weight the cell gets the
\* one whose pixel comes first in the Frame.
C33_TieByInsertionOrder ==
  quantRun.step = "painted" =>
    \A i \in QuantizeCells : DOMAIN quantRun.counted[i] # {} =>
      LET first == CHOOSE k \in HeaviestKeys(i) :
                     \A j \in HeaviestKeys(i) : FirstPixel(k, i) <= FirstPixel(j, i)
      IN quantRun.paint.colors[i] = ResolvedCode(first, i - 1)

\* C33: of the keys with the largest weight the cell gets the one with the
\* lowest code, the sentinel counting as the highest.
C33_TieByKeyOrder ==
  quantRun.step = "painted" =>
    \A i \in QuantizeCells : DOMAIN quantRun.counted[i] # {} =>
      LET heaviest == HeaviestKeys(i)
          codes == {k \in heaviest : k # TRANSPARENT_ANSI}
          first == IF codes = {} THEN TRANSPARENT_ANSI
                   ELSE CHOOSE k \in codes : \A j \in codes : k <= j
      IN quantRun.paint.colors[i] = ResolvedCode(first, i - 1)

C33_Witness ==
  /\ quantRun.step = "painted"
  /\ quantRun.frame.pixels = Red \o Blue
  /\ quantRun.view = Dimension(1, 1)
  /\ quantRun.counted = <<(21 :> 1) @@ (196 :> 1)>>
  /\ quantRun.paint.colors = <<21>>

RECURSIVE SumOver(_, _)
SumOver(f, S) ==
  IF S = {} THEN 0
  ELSE LET x == CHOOSE y \in S : TRUE IN f[x] + SumOver(f, S \ {x})

\* C39: every pixel falls into a cell of the view port, 0 .. vw * vh - 1,
\* and is counted once, in that cell: the counts of a cell add up to the
\* number of pixels that fall into it, and all counts to the number of
\* pixels of the Frame.
C39_CellIndexInRange ==
  quantRun.step = "painted" =>
    /\ \A p \in QuantizePixels : CellOfPixel(p) \in 1..ViewArea
    /\ \A i \in QuantizeCells :
         SumOver(quantRun.counted[i], DOMAIN quantRun.counted[i])
           = Cardinality({p \in QuantizePixels : CellOfPixel(p) = i})
    /\ SumOver([i \in QuantizeCells |->
                  SumOver(quantRun.counted[i], DOMAIN quantRun.counted[i])],
               QuantizeCells)
         = Cardinality(QuantizePixels)

C39_Witness ==
  /\ quantRun.step = "painted"
  /\ quantRun.frame.dimension = Dimension(1, 2)
  /\ quantRun.view = Dimension(2, 1)
  /\ quantRun.frame.pixels = Red \o Gray
  /\ quantRun.counted = <<(196 :> 1), (244 :> 1)>>

\* C40: the color of a cell is the code that the largest weighted number
\* of its pixels stand for, a transparent pixel standing for the color of
\* the previous Paint: the counts of the keys that stand for one code are
\* added up before the largest is taken.
C40_CountsCombined ==
  quantRun.step = "painted" =>
    \A i \in QuantizeCells : DOMAIN quantRun.counted[i] # {} =>
      LET keys == DOMAIN quantRun.counted[i]
          combined(code) ==
            SumOver([k \in keys |-> KeyWeight(k, i)],
                    {k \in keys : ResolvedCode(k, i - 1) = code})
      IN \A k \in keys :
           combined(ResolvedCode(k, i - 1)) <= combined(quantRun.paint.colors[i])

====
